---- MODULE Spec2Model ----
(***************************************************************************)
(* Model of cmd/cloudflared/tunnel/subcommands.go: the tunnel subcommands  *)
(* route, list (with renderOutput), the credential writer                  *)
(* writeTunnelCredentials and the connection summary fmtConnections.       *)
(*                                                                         *)
(* A Go string is a sequence of one-character strings; the token "U+E9"    *)
(* stands for one non-ASCII letter (e-acute).                              *)
(***************************************************************************)
EXTENDS Integers, Sequences, FiniteSets, TLC

VARIABLES
  cmd,        \* the subcommand being executed
  pc,         \* its position
  argv,       \* route: the positional arguments, c.Args()
  flags,      \* list: the flags supplied on the command line
  conns,      \* fmtConnections: the connections of one tunnel
  showRD,     \* fmtConnections: showRecentlyDisconnected
  calls,      \* the calls issued to the remote directory service, in order
  result,     \* the error the command returns ("ok" for nil)
  tunnelID,   \* route: the tunnel ID sc.findID returned
  built,      \* route: what dnsRouteFromArg / lbRouteFromArg returned
  stdout,     \* renderOutput: bytes of the document written to os.Stdout
  printed,    \* list: what the human-readable branch printed
  file,       \* writeTunnelCredentials: the file at the target path
  writeMode,  \* writeTunnelCredentials: the perm argument given to WriteFile
  output      \* fmtConnections: the returned string

vars == <<cmd, pc, argv, flags, conns, showRD, calls, result, tunnelID, built,
          stdout, printed, file, writeMode, output>>

\* ------------------------------------------------------------ bounds
\* longest hostname / load-balancer name drawn from HostChars
MaxHostLen == 2
\* longest pool name drawn from HostChars
MaxPoolLen == 1
\* most connections of one tunnel
MaxConns == 3
\* length in bytes of the serialized document written by renderOutput
DocLen == 2
\* length in bytes of the serialized credential body
BodyLen == 2

\* ------------------------------------------------------------ strings
None == "none"

Rep(c, n) == [i \in 1..n |-> c]

RECURSIVE Strs(_, _)
Strs(alphabet, n) ==
  IF n = 0 THEN {<<>>}
  ELSE LET shorter == Strs(alphabet, n - 1)
       IN  shorter \cup {Append(s, c) : s \in {t \in shorter : Len(t) = n - 1}, c \in alphabet}

Letters == {"a", "b", "d", "l", "n", "s", "t", "u", "x",
            "A", "F", "J", "K", "L", "X"}
Digits == {"0", "1", "2", "3", "4", "5", "6", "7", "8", "9"}
NonASCII == {"U+E9"}

IsAlnum(c) == c \in Letters \cup Digits

\* nameRegex = ^[_a-zA-Z0-9][-_.a-zA-Z0-9]*$
validateName(s) ==
  /\ Len(s) >= 1
  /\ IsAlnum(s[1]) \/ s[1] = "_"
  /\ \A i \in 2..Len(s) : IsAlnum(s[i]) \/ s[i] \in {"-", "_", "."}

\* ------------------------------------------------------------ idna.ToASCII
MaxLabelLen == 63
MaxDomainLen == 253
acePrefix == <<"x", "n", "-", "-">>

\* the labels of s, split at "."; a trailing empty label is skipped
RECURSIVE Labels(_)
Labels(s) ==
  IF s = <<>> THEN <<>>
  ELSE LET dots == {i \in 1..Len(s) : s[i] = "."}
       IN  IF dots = {} THEN <<s>>
           ELSE LET d == CHOOSE i \in dots : \A j \in dots : i <= j
                IN  <<SubSeq(s, 1, d - 1)>> \o Labels(SubSeq(s, d + 1, Len(s)))

IsASCIIStr(l) == \A i \in 1..Len(l) : l[i] \notin NonASCII

\* RFC 5891 section 4.2.3.1 hyphen rules checked by ValidateLabels
validateLabel(l) ==
  /\ l # <<>>
  /\ ~(Len(l) > 4 /\ l[3] = "-" /\ l[4] = "-")
  /\ l[1] # "-" /\ l[Len(l)] # "-"

\* the ASCII-compatible form of one label: an ASCII label is kept, another
\* becomes xn-- + its ASCII characters + "-" (if any) + one base-36 digit per
\* non-ASCII character
encodeLabel(l) ==
  IF IsASCIIStr(l) THEN l
  ELSE LET basic == SelectSeq(l, LAMBDA c : c \notin NonASCII)
           extra == SelectSeq(l, LAMBDA c : c \in NonASCII)
       IN  acePrefix \o basic \o (IF basic # <<>> THEN <<"-">> ELSE <<>>)
             \o [i \in 1..Len(extra) |-> "a"]

RECURSIVE JoinWith(_, _)
JoinWith(parts, sep) ==
  IF parts = <<>> THEN <<>>
  ELSE IF Len(parts) = 1 THEN parts[1]
  ELSE parts[1] \o sep \o JoinWith(Tail(parts), sep)

\* [ok, ascii]: idna.New(ValidateLabels(true), VerifyDNSLength(true)).ToASCII(s)
ToASCII(s) ==
  LET ls == Labels(s)
      enc == [i \in 1..Len(ls) |-> encodeLabel(ls[i])]
      trailingDot == s # <<>> /\ s[Len(s)] = "."
      puny == JoinWith(enc, <<".">>) \o (IF trailingDot THEN <<".">> ELSE <<>>)
      n == IF trailingDot THEN Len(puny) - 1 ELSE Len(puny)
  IN  [ok |-> /\ s # <<>>
              /\ \A i \in 1..Len(ls) : validateLabel(ls[i])
              /\ \A i \in 1..Len(enc) : Len(enc[i]) >= 1 /\ Len(enc[i]) <= MaxLabelLen
              /\ Len(puny) >= 1 /\ n <= MaxDomainLen,
       ascii |-> puny]

validateHostname(s) ==
  LET r == ToASCII(s) IN r.ok /\ validateName(r.ascii)

\* ------------------------------------------------------------ route constructors
Str_dns == <<"d", "n", "s">>
Str_lb == <<"l", "b">>

NArg(args) == Len(args)
\* c.Args().Get(i): the i-th argument (from 0), "" when there is none
Get(args, i) == IF i < Len(args) THEN args[i + 1] ELSE <<>>

NoRoute == [kind |-> "none", name |-> <<>>, pool |-> <<>>]
NewDNSRoute(h) == [kind |-> "dns", name |-> h, pool |-> <<>>]
NewLBRoute(n, p) == [kind |-> "lb", name |-> n, pool |-> p]
Fail(e) == [route |-> NoRoute, err |-> e]
Ok(r) == [route |-> r, err |-> None]

\* dnsRouteFromArg without the test for the empty hostname
dnsRouteFromArg_NoEmptyCheck(args) ==
  IF NArg(args) # 3 THEN Fail("UsageError")
  ELSE LET userHostname == Get(args, 2)
       IN  IF ~validateHostname(userHostname) THEN Fail("InvalidHostname")
           ELSE Ok(NewDNSRoute(userHostname))

dnsRouteFromArg(args) ==
  IF NArg(args) # 3 THEN Fail("UsageError")
  ELSE LET userHostname == Get(args, 2)
       IN  IF userHostname = <<>> THEN Fail("UsageError")
           ELSE IF ~validateHostname(userHostname) THEN Fail("InvalidHostname")
           ELSE Ok(NewDNSRoute(userHostname))

\* lbRouteFromArg testing the load-balancer name with validateName
lbRouteFromArg_NameRule(args) ==
  IF NArg(args) # 4 THEN Fail("UsageError")
  ELSE LET lbName == Get(args, 2)
           lbPool == Get(args, 3)
       IN  IF lbName = <<>> THEN Fail("UsageError")
           ELSE IF ~validateName(lbName) THEN Fail("InvalidLBName")
           ELSE IF lbPool = <<>> THEN Fail("UsageError")
           ELSE IF ~validateName(lbPool) THEN Fail("InvalidPoolName")
           ELSE Ok(NewLBRoute(lbName, lbPool))

lbRouteFromArg(args) ==
  IF NArg(args) # 4 THEN Fail("UsageError")
  ELSE LET lbName == Get(args, 2)
           lbPool == Get(args, 3)
       IN  IF lbName = <<>> THEN Fail("UsageError")
           ELSE IF ~validateHostname(lbName) THEN Fail("InvalidLBName")
           ELSE IF lbPool = <<>> THEN Fail("UsageError")
           ELSE IF ~validateName(lbPool) THEN Fail("InvalidPoolName")
           ELSE Ok(NewLBRoute(lbName, lbPool))

\* ------------------------------------------------------------ remote calls
ZeroUUID == "00000000-0000-0000-0000-000000000000"
SomeUUID == "6ba7b810-9dad-11d1-80b4-00c04fd430c8"
\* one call to the remote directory service
Call(op, ref, route, filter) == [op |-> op, ref |-> ref, route |-> route, filter |-> filter]

\* sc.findID: the tunnel reference is resolved by a lookup at the directory
\* service, which finds the tunnel or does not
findID(ref, found) ==
  [call |-> Call("findID", ref, NoRoute, {}),
   id |-> IF found THEN SomeUUID ELSE ZeroUUID,
   err |-> IF found THEN None ELSE "LookupError"]

\* sc.route: the route is submitted to the directory service, which accepts
\* it or does not
route(id, r, accepted) ==
  [call |-> Call("route", id, r, {}),
   err |-> IF accepted THEN None ELSE "RouteError"]

\* sc.list: the directory service is asked for the tunnels matching the filter
list(filter, listed) ==
  [call |-> Call("list", <<>>, NoRoute, filter),
   err |-> IF listed = "error" THEN "ListError" ELSE None]

\* ------------------------------------------------------------ inputs
HostChars == {"a", "-", "_", ".", " ", "U+E9"}
\* names at and over the DNS limits: labels of 63 and 64 bytes, and domains of
\* 253 and 255 bytes
LongHosts ==
  { Rep("a", MaxLabelLen), Rep("a", MaxLabelLen + 1),
    JoinWith(<<Rep("a", 63), Rep("a", 63), Rep("a", 63), Rep("a", 61)>>, <<".">>),
    JoinWith(<<Rep("a", 63), Rep("a", 63), Rep("a", 63), Rep("a", 63)>>, <<".">>) }
HostNames == Strs(HostChars, MaxHostLen) \cup LongHosts
PoolNames == Strs(HostChars, MaxPoolLen)
RouteTypes == {Str_dns, Str_lb, <<"x">>}
TunnelRefs == {<<"t">>}

RouteArgvs ==
  {<<>>}
    \cup {<<r>> : r \in RouteTypes}
    \cup {<<r, t>> : r \in RouteTypes, t \in TunnelRefs}
    \cup {<<r, t, h>> : r \in RouteTypes, t \in TunnelRefs, h \in HostNames}
    \cup {<<r, t, h, p>> : r \in RouteTypes, t \in TunnelRefs, h \in HostNames, p \in PoolNames}

NoFile == [exists |-> FALSE, data |-> "none", len |-> 0, mode |-> 0]
NotBuilt == [route |-> NoRoute, err |-> "notcalled"]
NoFlags == [f \in {} |-> FALSE]

\* ------------------------------------------------------------ routeCommand
\* lines 460-466: the argument count, then newSubcommandContext
RouteEnter ==
  /\ cmd = "route" /\ pc = "start"
  /\ IF NArg(argv) < 2
       THEN result' = "UsageError" /\ pc' = "done"
       ELSE \E ctxOK \in BOOLEAN :
              IF ~ctxOK THEN result' = "ContextError" /\ pc' = "done"
              ELSE result' = result /\ pc' = "switch"
  /\ UNCHANGED <<cmd, argv, flags, conns, showRD, tunnelID, calls, built, stdout, printed,
                 file, writeMode, output>>

\* lines 470-494: the switch on the route type; in both known cases the tunnel
\* is looked up first (sc.findID, a call to the directory service)
RouteFindID ==
  /\ cmd = "route" /\ pc = "switch"
  /\ IF Get(argv, 0) \in {Str_dns, Str_lb}
       THEN \E found \in BOOLEAN :
              LET r == findID(Get(argv, 1), found) IN
              /\ calls' = Append(calls, r.call)
              /\ IF r.err # None
                   THEN tunnelID' = tunnelID /\ result' = r.err /\ pc' = "done"
                   ELSE tunnelID' = r.id /\ result' = result /\ pc' = "build"
       ELSE calls' = calls /\ tunnelID' = tunnelID /\ result' = "UsageError"
            /\ pc' = "done"
  /\ UNCHANGED <<cmd, argv, flags, conns, showRD, built, stdout, printed,
                 file, writeMode, output>>

\* RouteBuild going on to the submission whatever the constructor returned
RouteBuild_Unchecked ==
  /\ cmd = "route" /\ pc = "build"
  /\ built' = IF Get(argv, 0) = Str_dns THEN dnsRouteFromArg(argv)
                                          ELSE lbRouteFromArg(argv)
  /\ result' = result /\ pc' = "submit"
  /\ UNCHANGED <<cmd, argv, flags, conns, showRD, tunnelID, calls, stdout, printed,
                 file, writeMode, output>>

\* lines 479-482 and 488-491: the route is built from the arguments
RouteBuild ==
  /\ cmd = "route" /\ pc = "build"
  /\ built' = IF Get(argv, 0) = Str_dns THEN dnsRouteFromArg(argv)
                                          ELSE lbRouteFromArg(argv)
  /\ IF built'.err # None
       THEN result' = built'.err /\ pc' = "done"
       ELSE result' = result /\ pc' = "submit"
  /\ UNCHANGED <<cmd, argv, flags, conns, showRD, tunnelID, calls, stdout, printed,
                 file, writeMode, output>>

\* lines 496-503: sc.route submits the route
RouteSubmit ==
  /\ cmd = "route" /\ pc = "submit"
  /\ \E accepted \in BOOLEAN :
       LET r == route(tunnelID, built.route, accepted) IN
       /\ calls' = Append(calls, r.call)
       /\ result' = IF r.err # None THEN r.err ELSE "ok"
  /\ pc' = "done"
  /\ UNCHANGED <<cmd, argv, flags, conns, showRD, tunnelID, built, stdout, printed,
                 file, writeMode, output>>

\* ------------------------------------------------------------ listCommand
Nil == "nil"
\* the flags of the list command (lines 34-65), each name with its alias
ListFlagNames == {"output", "show-deleted", "name", "when", "id",
                  "show-recently-disconnected"}
FlagAlias == [a \in {"o", "d", "n", "w", "i", "rd"} |->
                CASE a = "o" -> "output"
                  [] a = "d" -> "show-deleted"
                  [] a = "n" -> "name"
                  [] a = "w" -> "when"
                  [] a = "i" -> "id"
                  [] a = "rd" -> "show-recently-disconnected"]
Canon(name) == IF name \in DOMAIN FlagAlias THEN FlagAlias[name] ELSE name

\* the context's lookups by flag name: a name that names no flag of the
\* command gives the zero value of the type
c_Bool(fl, name) == IF Canon(name) \in DOMAIN fl THEN fl[Canon(name)] ELSE FALSE
c_String(fl, name) == IF Canon(name) \in DOMAIN fl THEN fl[Canon(name)] ELSE ""
c_Timestamp(fl, name) == IF Canon(name) \in DOMAIN fl THEN fl[Canon(name)] ELSE Nil

SomeTime == "2020-01-01T00:00:00Z"
uuid_Parse(id) == id = SomeUUID

Formats == {"", "json", "yaml", "xml", "JSON"}
ListFlagSets ==
  { [f \in ListFlagNames |->
       CASE f = "output" -> o
         [] f = "show-deleted" -> d
         [] f = "name" -> n
         [] f = "when" -> w
         [] f = "id" -> i
         [] f = "show-recently-disconnected" -> rd] :
      o \in Formats, d \in BOOLEAN, n \in {"", "x"}, w \in {Nil, SomeTime},
      i \in {"", SomeUUID, "not-a-uuid"}, rd \in BOOLEAN }

Pred(p, v) == [p |-> p, v |-> v]

\* BuildFilter with the test of --show-deleted inverted
BuildFilter_Inverted(fl) ==
  LET f1 == IF c_Bool(fl, "show-deleted") THEN {Pred("NoDeleted", "")} ELSE {}
      f2 == IF c_String(fl, "name") # ""
              THEN f1 \cup {Pred("ByName", c_String(fl, "name"))} ELSE f1
      f3 == IF c_Timestamp(fl, "time") # Nil
              THEN f2 \cup {Pred("ByExistedAt", c_Timestamp(fl, "time"))} ELSE f2
      id == c_String(fl, "id")
  IN  IF id # "" /\ ~uuid_Parse(id) THEN [filter |-> f3, err |-> "InvalidTunnelID"]
      ELSE [filter |-> IF id # "" THEN f3 \cup {Pred("ByTunnelID", id)} ELSE f3,
            err |-> None]

\* lines 166-182: the filter assembled from the flags; err is set when --id
\* does not parse
BuildFilter(fl) ==
  LET f0 == {}
      f1 == IF ~c_Bool(fl, "show-deleted") THEN f0 \cup {Pred("NoDeleted", "")} ELSE f0
      f2 == IF c_String(fl, "name") # ""
              THEN f1 \cup {Pred("ByName", c_String(fl, "name"))} ELSE f1
      f3 == IF c_Timestamp(fl, "time") # Nil
              THEN f2 \cup {Pred("ByExistedAt", c_Timestamp(fl, "time"))} ELSE f2
      id == c_String(fl, "id")
  IN  IF id # "" /\ ~uuid_Parse(id) THEN [filter |-> f3, err |-> "InvalidTunnelID"]
      ELSE [filter |-> IF id # "" THEN f3 \cup {Pred("ByTunnelID", id)} ELSE f3,
            err |-> None]

\* lines 160-199 up to the output: the context, the filter, sc.list
ListCommand ==
  /\ cmd = "list" /\ pc = "start"
  /\ \E ctxOK \in BOOLEAN, listed \in {"error", "none", "some"} :
       LET b == BuildFilter(flags) IN
       IF ~ctxOK
         THEN calls' = calls /\ result' = "ContextError" /\ pc' = "done"
              /\ printed' = printed
       ELSE IF b.err # None
         THEN calls' = calls /\ result' = b.err /\ pc' = "done" /\ printed' = printed
       ELSE /\ calls' = Append(calls, list(b.filter, listed).call)
            /\ IF list(b.filter, listed).err # None
                 THEN result' = list(b.filter, listed).err /\ pc' = "done"
                      /\ printed' = printed
               ELSE IF c_String(flags, "output") # ""
                 THEN result' = result /\ pc' = "render" /\ printed' = printed
               ELSE /\ result' = "ok" /\ pc' = "done"
                    /\ printed' = IF listed = "some" THEN "table" ELSE "hint"
  /\ UNCHANGED <<cmd, argv, flags, conns, showRD, tunnelID, built, stdout, file, writeMode, output>>

\* ------------------------------------------------------------ renderOutput
\* the switch of lines 283-292
KnownFormat(format) == format \in {"json", "yaml"}

\* lines 282-293: an unknown format is an error; otherwise the encoder writes
\* the document to os.Stdout, where a write may stop after n bytes with an error
RenderOutput ==
  /\ cmd = "list" /\ pc = "render"
  /\ IF ~KnownFormat(c_String(flags, "output"))
       THEN stdout' = stdout /\ result' = "UnknownFormat"
       ELSE \E n \in 0..DocLen :
              /\ stdout' = stdout + n
              /\ result' = IF n = DocLen THEN "ok" ELSE "WriteError"
  /\ pc' = "done"
  /\ UNCHANGED <<cmd, argv, flags, conns, showRD, tunnelID, calls, built, printed, file,
                 writeMode, output>>

\* ------------------------------------------------------------ writeTunnelCredentials
\* the perm argument of line 139, a decimal literal
CredFileMode == 400

Bit(m, k) == (m \div (2 ^ k)) % 2
\* m &^ u on the nine permission bits
RECURSIVE AndNotFrom(_, _, _)
AndNotFrom(m, u, k) ==
  IF k > 8 THEN 0
  ELSE (2 ^ k) * Bit(m, k) * (1 - Bit(u, k)) + AndNotFrom(m, u, k + 1)
AndNot(m, u) == AndNotFrom(m, u, 0)

\* umask values of the process: none, 022, 077
Umasks == {0, 18, 63}
\* a file left at the target path by an earlier run, mode 0600
StaleFile == [exists |-> TRUE, data |-> "stale", len |-> BodyLen, mode |-> 384]

\* lines 125-138: the path (homedir.Expand may fail) and the JSON body
\* (json.Marshal of a string and a byte slice does not fail)
PersistPrepare ==
  /\ cmd = "persist" /\ pc = "start"
  /\ \E pathOK \in BOOLEAN :
       IF pathOK THEN result' = result /\ pc' = "write"
       ELSE result' = "PathError" /\ pc' = "done"
  /\ UNCHANGED <<cmd, argv, flags, conns, showRD, tunnelID, calls, built, stdout, printed,
                 file, writeMode, output>>

\* what ioutil.WriteFile(path, body, perm) leaves behind: the open
\* (O_WRONLY|O_CREATE|O_TRUNC, perm) fails and the path is untouched, or it
\* creates the file with perm &^ umask (truncates an existing one, mode kept)
\* and n bytes of the body are written, all of them unless the write fails
WriteFile(old, perm, umask, opened, n) ==
  IF ~opened THEN [file |-> old, err |-> "WriteError"]
  ELSE [file |-> [exists |-> TRUE, data |-> "cred", len |-> n,
                  mode |-> IF old.exists THEN old.mode ELSE AndNot(perm, umask)],
        err |-> IF n = BodyLen THEN None ELSE "WriteError"]

\* line 139
PersistWrite ==
  /\ cmd = "persist" /\ pc = "write"
  /\ writeMode' = CredFileMode
  /\ \E opened \in BOOLEAN, umask \in Umasks, n \in 0..BodyLen :
       LET w == WriteFile(file, CredFileMode, umask, opened, n) IN
       /\ file' = w.file
       /\ result' = IF w.err = None THEN "ok" ELSE w.err
  /\ pc' = "done"
  /\ UNCHANGED <<cmd, argv, flags, conns, showRD, tunnelID, calls, built, stdout, printed, output>>

\* ------------------------------------------------------------ fmtConnections
\* the characters of the model in byte order
ByteOrder == <<" ", "-", ".", "0", "1", "2", "3", "4", "5", "6", "7", "8", "9",
               "A", "F", "J", "K", "L", "X", "_",
               "a", "b", "d", "l", "n", "s", "t", "u", "x", "U+E9">>
Ord(c) == CHOOSE i \in 1..Len(ByteOrder) : ByteOrder[i] = c

\* a < b for Go strings: byte-wise lexicographic
RECURSIVE StrLess(_, _)
StrLess(a, b) ==
  IF b = <<>> THEN FALSE
  ELSE IF a = <<>> THEN TRUE
  ELSE IF Head(a) # Head(b) THEN Ord(Head(a)) < Ord(Head(b))
  ELSE StrLess(Tail(a), Tail(b))

\* x put into the ascending sequence sorted
RECURSIVE InsertSorted(_, _)
InsertSorted(x, sorted) ==
  IF sorted = <<>> THEN <<x>>
  ELSE IF StrLess(x, Head(sorted)) THEN <<x>> \o sorted
  ELSE <<Head(sorted)>> \o InsertSorted(x, Tail(sorted))

\* sort.Strings left out: the colos stay in the order of the map iteration
SortStrings_Unsorted(xs) == xs

\* sort.Strings
RECURSIVE SortStrings(_)
SortStrings(xs) ==
  IF xs = <<>> THEN <<>> ELSE InsertSorted(Head(xs), SortStrings(Tail(xs)))

\* %d
RECURSIVE Itoa(_)
Itoa(n) ==
  LET d == <<"0", "1", "2", "3", "4", "5", "6", "7", "8", "9">>[(n % 10) + 1]
  IN  IF n < 10 THEN <<d>> ELSE Itoa(n \div 10) \o <<d>>

\* lines 232-237: the count of the connections shown, per colo
RECURSIVE numConnsPerColo(_, _)
numConnsPerColo(connections, showRecentlyDisconnected) ==
  IF connections = <<>> THEN [c \in {} |-> 0]
  ELSE LET n == Len(connections)
           m == numConnsPerColo(SubSeq(connections, 1, n - 1), showRecentlyDisconnected)
           connection == connections[n]
       IN  IF ~connection.IsPendingReconnect \/ showRecentlyDisconnected
             THEN IF connection.ColoName \in DOMAIN m
                    THEN [m EXCEPT ![connection.ColoName] = @ + 1]
                    ELSE [c \in DOMAIN m \cup {connection.ColoName} |->
                            IF c \in DOMAIN m THEN m[c] ELSE 1]
             ELSE m

\* lines 246-251: "<count>x<colo>" for each colo in the given order, joined by ", "
FormatColos(m, sortedColos) ==
  JoinWith([i \in 1..Len(sortedColos) |->
              Itoa(m[sortedColos[i]]) \o <<"x">> \o sortedColos[i]],
           <<",", " ">>)

\* the orders in which a range over a map with these keys can visit them
KeyOrders(keys) ==
  {o \in [1..Cardinality(keys) -> keys] : \A i, j \in DOMAIN o : i # j => o[i] # o[j]}

Colos == {<<"J", "F", "K">>, <<"L", "A", "X">>, <<"L", "A">>}
Connections == [ColoName : Colos, IsPendingReconnect : BOOLEAN]
RECURSIVE ConnLists(_)
ConnLists(n) ==
  IF n = 0 THEN {<<>>}
  ELSE LET shorter == ConnLists(n - 1)
       IN  shorter \cup {Append(l, c) : l \in {t \in shorter : Len(t) = n - 1},
                                         c \in Connections}

\* lines 229-252
FmtConnections ==
  /\ cmd = "fmt" /\ pc = "start"
  /\ LET m == numConnsPerColo(conns, showRD) IN
       \E iteration \in KeyOrders(DOMAIN m) :
         output' = FormatColos(m, SortStrings(iteration))
  /\ pc' = "done"
  /\ UNCHANGED <<cmd, argv, flags, conns, showRD, tunnelID, calls, result, built, stdout,
                 printed, file, writeMode>>

\* ------------------------------------------------------------ specification
Defaults ==
  /\ pc = "start" /\ calls = <<>> /\ result = "running" /\ built = NotBuilt
  /\ tunnelID = ZeroUUID
  /\ stdout = 0 /\ printed = "none" /\ writeMode = 0 /\ output = <<>>

Init ==
  /\ Defaults
  /\ \/ /\ cmd = "route" /\ argv \in RouteArgvs
        /\ flags = NoFlags /\ conns = <<>> /\ showRD = FALSE /\ file = NoFile
     \/ /\ cmd = "list" /\ flags \in ListFlagSets
        /\ argv = <<>> /\ conns = <<>> /\ showRD = FALSE /\ file = NoFile
     \/ /\ cmd = "persist" /\ file \in {NoFile, StaleFile}
        /\ argv = <<>> /\ flags = NoFlags /\ conns = <<>> /\ showRD = FALSE
     \/ /\ cmd = "fmt" /\ conns \in ConnLists(MaxConns) /\ showRD \in BOOLEAN
        /\ argv = <<>> /\ flags = NoFlags /\ file = NoFile

Next ==
  \/ RouteEnter
  \/ RouteFindID
  \/ RouteBuild
  \/ RouteSubmit
  \/ ListCommand
  \/ RenderOutput
  \/ PersistPrepare
  \/ PersistWrite
  \/ FmtConnections

Spec == Init /\ [][Next]_vars

\* ------------------------------------------------------------ claims
RouteSubmissions == {i \in DOMAIN calls : calls[i].op = "route"}
ListCalls == {i \in DOMAIN calls : calls[i].op = "list"}

\* the arguments of a dns / lb route fail the local validation
ValidationFails(args) ==
  \/ Get(args, 0) = Str_dns /\ dnsRouteFromArg(args).err = "InvalidHostname"
  \/ Get(args, 0) = Str_lb /\ lbRouteFromArg(args).err \in {"InvalidLBName", "InvalidPoolName"}

\* C1: in the route command the hostname / load-balancer name / pool name is
\* validated before any remote call: with an invalid name no call (neither
\* findID nor the route submission) has been issued to the directory service.
C1_ValidationBeforeRemoteCall ==
  (cmd = "route" /\ ValidationFails(argv)) => calls = <<>>

OwnerOnly(m) == Bit(m, 8) = 1 /\ \A k \in 0..5 : Bit(m, k) = 0

\* C2: the mode given to the file write of a credential file grants read to
\* the owner and no read, write or execute bit to group or others.
C2_OwnerOnlyMode ==
  (cmd = "persist" /\ pc = "done" /\ result # "PathError") => OwnerOnly(writeMode)

\* C3: after writeTunnelCredentials returns, either no error is returned and
\* the file holds the complete credential, or an error is returned and no
\* (empty or truncated) credential file exists at the target path.
C3_NoPartialCredentialFile ==
  (cmd = "persist" /\ pc = "done") =>
     \/ result = "ok" /\ file.exists /\ file.data = "cred" /\ file.len = BodyLen
     \/ result # "ok" /\ ~(file.exists /\ file.data = "cred")

LBArgs == cmd = "route" /\ built # NotBuilt /\ Get(argv, 0) = Str_lb /\ NArg(argv) = 4

\* C4 as claimed: for a non-empty load-balancer name and a valid pool name a
\* route is returned exactly if the name matches the name rule as typed, and
\* InvalidLBName is returned otherwise.
C4_LBNameByNameRule ==
  (LBArgs /\ Get(argv, 2) # <<>> /\ validateName(Get(argv, 3))) =>
          IF validateName(Get(argv, 2))
            THEN built = Ok(NewLBRoute(Get(argv, 2), Get(argv, 3)))
            ELSE built = Fail("InvalidLBName")

\* C4 amended: the load-balancer name is accepted by the hostname rule (its
\* ASCII-compatible form within the DNS length limits matches the name rule):
\* for a non-empty name and a valid pool name a route carrying both as typed is
\* returned exactly if validateHostname(lbName), and InvalidLBName otherwise; a
\* valid name with a non-empty invalid pool name gives InvalidPoolName, with an
\* empty pool name a usage error.
C4_LBNameByHostnameRule ==
  (LBArgs /\ Get(argv, 2) # <<>>) =>
     /\ validateName(Get(argv, 3)) =>
          IF validateHostname(Get(argv, 2))
            THEN built = Ok(NewLBRoute(Get(argv, 2), Get(argv, 3)))
            ELSE built = Fail("InvalidLBName")
     /\ (validateHostname(Get(argv, 2)) /\ ~validateName(Get(argv, 3))) =>
          built = Fail(IF Get(argv, 3) = <<>> THEN "UsageError" ELSE "InvalidPoolName")
     /\ Get(argv, 2) = <<"U+E9">> => built.err # "InvalidLBName"
     /\ Get(argv, 2) \in {<<"a", "-">>, <<"a", " ">>, Rep("a", MaxLabelLen + 1)}
          => built = Fail("InvalidLBName")

\* a load-balancer route was built for a name that is a hostname and is not a
\* name as typed
C4_Witness ==
  /\ LBArgs /\ built.err = None /\ built.route.kind = "lb"
  /\ ~validateName(Get(argv, 2))

\* C5: the filter given to the directory service carries the existed-at
\* predicate for TIME when --when TIME is given, and each of --name, --id and
\* --when contributes its predicate exactly if the flag was supplied.
C5_FlagsContributePredicates ==
  cmd = "list" =>
    \A i \in ListCalls :
      LET f == calls[i].filter IN
      /\ flags["when"] # Nil <=> Pred("ByExistedAt", flags["when"]) \in f
      /\ flags["name"] # "" <=> Pred("ByName", flags["name"]) \in f
      /\ flags["id"] # "" <=> Pred("ByTunnelID", flags["id"]) \in f
      /\ \A q \in f : q.p = "ByExistedAt" => flags["when"] # Nil

\* ---- the reference aggregation of C6
Counted(cs, flag) == {i \in DOMAIN cs : ~cs[i].IsPendingReconnect \/ flag}
CountedNames(cs, flag) == {cs[i].ColoName : i \in Counted(cs, flag)}
CountAt(cs, flag, name) == Cardinality({i \in Counted(cs, flag) : cs[i].ColoName = name})
\* a comes strictly before b in lexicographic order
LexBefore(a, b) ==
  \E k \in 1..(Len(b)) :
    /\ \A j \in 1..(k - 1) : j <= Len(a) /\ a[j] = b[j]
    /\ Len(a) >= k - 1
    /\ Len(a) = k - 1 \/ Ord(a[k]) < Ord(b[k])
Ascending(names) ==
  CHOOSE o \in [1..Cardinality(names) -> names] :
    \A i, j \in DOMAIN o : i < j => LexBefore(o[i], o[j])
RECURSIVE RefRender(_, _, _, _)
RefRender(cs, flag, order, i) ==
  IF i > Len(order) THEN <<>>
  ELSE Itoa(CountAt(cs, flag, order[i])) \o <<"x">> \o order[i]
         \o (IF i < Len(order) THEN <<",", " ">> ELSE <<>>)
         \o RefRender(cs, flag, order, i + 1)
RefSummary(cs, flag) == RefRender(cs, flag, Ascending(CountedNames(cs, flag)), 1)

Rearrangements(cs) ==
  {[i \in DOMAIN cs |-> cs[p[i]]] :
     p \in {q \in [DOMAIN cs -> DOMAIN cs] : \A i, j \in DOMAIN cs : i # j => q[i] # q[j]}}

JFK == <<"J", "F", "K">>
LAX == <<"L", "A", "X">>
Conn(name, pending) == [ColoName |-> name, IsPendingReconnect |-> pending]
ExampleConns == <<Conn(LAX, FALSE), Conn(LAX, FALSE), Conn(JFK, TRUE)>>

\* C6: fmtConnections returns the reference aggregation: the names with at
\* least one counted connection, each once as "<count>x<name>", joined by ", "
\* in ascending lexicographic order, a connection counted iff it is not pending
\* reconnect or the flag is set; the empty string when none is counted; the
\* same for every rearrangement of the connections.
C6_SummaryIsReference ==
  (cmd = "fmt" /\ pc = "done") =>
     /\ \A r \in Rearrangements(conns) : output = RefSummary(r, showRD)
     /\ Counted(conns, showRD) = {} => output = <<>>
     /\ (conns = ExampleConns /\ ~showRD) => output = <<"2", "x", "L", "A", "X">>
     /\ (conns = ExampleConns /\ showRD) =>
          output = <<"1", "x", "J", "F", "K", ",", " ", "2", "x", "L", "A", "X">>

\* a summary of several names, one of them with pending connections only
C6_Witness ==
  /\ cmd = "fmt" /\ pc = "done" /\ showRD /\ Len(conns) = 3
  /\ Cardinality(CountedNames(conns, showRD)) >= 2
  /\ \E i \in DOMAIN conns : conns[i].IsPendingReconnect
  /\ conns[1].ColoName = LAX /\ conns[3].ColoName = <<"L", "A">>
  /\ output # <<>>

DNSArgs == cmd = "route" /\ built # NotBuilt /\ Get(argv, 0) = Str_dns /\ NArg(argv) = 3

\* C7 as claimed: with three arguments dnsRouteFromArg returns a DNS route
\* carrying the hostname iff the hostname is non-empty and a valid hostname,
\* and in every other case, the empty hostname included, fails with
\* InvalidHostname and builds no route.
C7_EmptyHostnameIsInvalidHostname ==
  DNSArgs =>
     IF Get(argv, 2) # <<>> /\ validateHostname(Get(argv, 2))
       THEN built = Ok(NewDNSRoute(Get(argv, 2)))
       ELSE built = Fail("InvalidHostname")

\* C7 amended: with three arguments dnsRouteFromArg returns a DNS route
\* carrying the hostname as typed iff the hostname is non-empty and a valid
\* hostname; a non-empty invalid hostname fails with InvalidHostname, the
\* empty hostname with a usage error; no route is built in either case.
C7_EmptyHostnameIsUsageError ==
  DNSArgs =>
     /\ IF Get(argv, 2) # <<>> /\ validateHostname(Get(argv, 2))
          THEN built = Ok(NewDNSRoute(Get(argv, 2)))
          ELSE built = Fail(IF Get(argv, 2) = <<>> THEN "UsageError"
                                                   ELSE "InvalidHostname")
     /\ Get(argv, 2) \in {<<"a", ".", "a">>, <<"U+E9">>, Rep("a", MaxLabelLen)}
          => built.err = None
     /\ Get(argv, 2) \in {<<" ">>, <<"-", "a">>, <<".">>, Rep("a", MaxLabelLen + 1)}
          => built = Fail("InvalidHostname")

\* dnsRouteFromArg was given three arguments, the hostname empty
C7_Witness ==
  DNSArgs /\ Get(argv, 2) = <<>> /\ built.err = "UsageError" /\ pc = "done"

Rendered ==
  /\ cmd = "list" /\ pc = "done" /\ flags["output"] # ""
  /\ result \in {"ok", "UnknownFormat", "WriteError"}

\* C8: renderOutput accepts exactly "json" and "yaml"; any other format gives
\* UnknownFormat with no byte written; and every call either writes the whole
\* document or returns an error with nothing written.
C8_RenderAllOrNothing ==
  Rendered =>
     /\ result = "UnknownFormat" <=> flags["output"] \notin {"json", "yaml"}
     /\ result = "UnknownFormat" => stdout = 0
     /\ \/ result = "ok" /\ stdout = DocLen
        \/ result # "ok" /\ stdout = 0

\* C9: the filter given to the directory service has NoDeleted applied iff
\* --show-deleted was not given, whatever the other filter flags are.
C9_NoDeletedIffNotShowDeleted ==
  cmd = "list" =>
    \A i \in ListCalls :
      Pred("NoDeleted", "") \in calls[i].filter <=> ~flags["show-deleted"]

\* the directory was asked with --name, --id and --when given and
\* --show-deleted absent
C9_Witness ==
  /\ cmd = "list" /\ ListCalls # {}
  /\ ~flags["show-deleted"] /\ flags["name"] # "" /\ flags["id"] # ""
  /\ flags["when"] # Nil
  /\ \A i \in ListCalls : Pred("NoDeleted", "") \in calls[i].filter

\* C10: a route is submitted at most once, only after findID and the route
\* construction succeeded, and it is the route built for the tunnel found; when
\* either fails, the route type is unknown or fewer than two arguments are
\* given, the command returns that error and nothing is ever submitted.
C10_SubmitOnceAfterSuccess ==
  cmd = "route" =>
     /\ Cardinality(RouteSubmissions) <= 1
     /\ \A i \in RouteSubmissions :
          /\ NArg(argv) >= 2 /\ Get(argv, 0) \in {Str_dns, Str_lb}
          /\ \E j \in 1..(i - 1) : calls[j].op = "findID"
          /\ tunnelID # ZeroUUID /\ calls[i].ref = tunnelID
          /\ built.err = None /\ built.route.kind # "none"
          /\ calls[i].route = built.route
          /\ built = IF Get(argv, 0) = Str_dns THEN dnsRouteFromArg(argv)
                                               ELSE lbRouteFromArg(argv)
     /\ built.err \notin {None, "notcalled"} =>
          result = built.err /\ RouteSubmissions = {}
     /\ (pc = "done" /\ tunnelID = ZeroUUID) =>
          /\ result \in {"UsageError", "ContextError", "LookupError"}
          /\ RouteSubmissions = {}
     /\ (pc = "done" /\ (NArg(argv) < 2 \/ Get(argv, 0) \notin {Str_dns, Str_lb})) =>
          result \in {"UsageError", "ContextError"} /\ calls = <<>>

\* a route was submitted and accepted
C10_Witness ==
  /\ cmd = "route" /\ pc = "done" /\ result = "ok"
  /\ Cardinality(RouteSubmissions) = 1

====
